---- MODULE Spec2Model ----
(***************************************************************************)
(* Round evaluation, freezing, weighted aggregation and shortlisting of    *)
(* crestora-hub (backend/app/services/round_service.py and the API         *)
(* handlers that share its tables).                                        *)
(*                                                                         *)
(* The store is the four tables teams, rounds, team_scores, round_weights. *)
(* Every action is one call of a service method or API handler, executed   *)
(* as a whole.  For a call with given arguments in the current state,      *)
(* <name>_error is what it raises ("ok" when it returns) and <name>_result *)
(* the tables it leaves behind; the action <name> applies that result.     *)
(* GET /api/leaderboard is the operator get_leaderboard (the team ids of    *)
(* the response in rank order) and the action get_leaderboard_call.        *)
(* GET /api/leaderboard/evaluated-rounds, evaluate_team and shortlist_teams *)
(* are also taken one database transaction step at a time (variables       *)
(* readers and requests) so that requests in flight interleave; extra_rows *)
(* holds the TeamScore rows stored beside the first of their pair, and     *)
(* eliminated_by is a history variable naming what eliminated a team.      *)
(* Query results without ORDER BY are taken in primary-key order.          *)
(* Scores are kept as integers: the criteria and points offered to the     *)
(* operations are chosen so that raw_total / max_possible * 100 is exact.  *)
(* Weighted averages are kept as fractions [num, den].                     *)
(***************************************************************************)
EXTENDS Integers, Sequences, FiniteSets, TLC

\* ---------------------------------------------------------------- bounds
NumTeams == 2
NumRounds == 3
MaxCalls == 5
NumReaders == 2

\* ------------------------------------------------------------- constants
DefaultWeight == 100
ScoreCap == 100
MinWeight == 25
MaxWeight == 200

\* ---------------------------------------------------------------- tables
Teams == 1..NumTeams
\* primary keys of the rows of table rounds; row 1 is the main event record
Rounds == 1..NumRounds
UnknownId == 0

round_number(r) == r - 1

club(r) == IF r % 2 = 0 THEN "clubA" ELSE "clubB"

TeamStatus == {"ACTIVE", "ELIMINATED", "COMPLETED"}

\* Optional values (None / a value)
None == [null |-> TRUE]
Some(x) == [null |-> FALSE, value |-> x]

\* dict.get(k, default)
Get(d, k, default) == IF k \in DOMAIN d THEN d[k] ELSE default

RECURSIVE SumOver(_, _)
SumOver(f, S) ==
    IF S = {} THEN 0
    ELSE LET x == CHOOSE y \in S : TRUE
         IN f[x] + SumOver(f, S \ {x})

\* sum(d.values())
SumValues(d) == SumOver(d, DOMAIN d)

RECURSIVE GCD(_, _)
GCD(a, b) == IF b = 0 THEN a ELSE GCD(b, a % b)

\* the fraction n / d (d > 0, n >= 0) in lowest terms
Frac(n, d) == [num |-> n \div GCD(n, d), den |-> d \div GCD(n, d)]

Max(S) == CHOOSE x \in S : \A y \in S : y <= x
Min(S) == CHOOSE x \in S : \A y \in S : x <= y

VARIABLES teams, rounds, team_scores, round_weights, calls, readers, eliminated_by,
          requests, extra_rows

store == <<teams, rounds, team_scores, round_weights, extra_rows>>
vars == <<teams, rounds, team_scores, round_weights, calls, readers, eliminated_by,
          requests, extra_rows>>

\* requests to GET /api/leaderboard/evaluated-rounds in flight, one per slot:
\* where the handler stands, the rounds it still has to look up, and the
\* weights it has collected for its response
Readers == 1..NumReaders

IdleRequest == [pc |-> "idle", todo |-> <<>>, weights |-> <<>>]

\* calls of the round service in flight, one per slot, between their queries
\* and their commit
NoRequest == [pc |-> "idle"]

\* TeamScore declares no unique constraint on (team_id, round_id): rows a
\* commit inserted for a pair that had a row by then.  team_scores holds, per
\* pair, the row `.first()` returns.
\* (extra_rows is a sequence of [key, row])

\* history, not stored by the program: for each team what made it ELIMINATED,
\* an absence in a round ("absence", that round) or a shortlist decision
NotEliminated == [cause |-> "none", round |-> UnknownId]

\* a row of table rounds as the ORM creates it
NewRound ==
    [is_frozen |-> FALSE, is_evaluated |-> FALSE, criteria |-> None,
     shortlisted_teams |-> None, max_score |-> None, min_score |-> None,
     avg_score |-> None, participated_count |-> 0]

\* the registered teams, and the event record with its rounds as POST /events
\* stores them: no TeamScore row and no RoundWeight row yet
Init ==
    /\ teams = [t \in Teams |-> "ACTIVE"]
    /\ rounds = [r \in Rounds |-> NewRound]
    /\ team_scores = <<>>
    /\ round_weights = <<>>
    /\ calls = 0
    /\ readers = [p \in Readers |-> IdleRequest]
    /\ eliminated_by = [t \in Teams |-> NotEliminated]
    /\ requests = [p \in Readers |-> NoRequest]
    /\ extra_rows = <<>>

\* ------------------------------------------------------------ inputs
Users == {[role |-> "admin", club |-> "pda"],
          [role |-> "clubs", club |-> "clubA"],
          [role |-> "judge", club |-> "none"]}

CriteriaInputs == { <<[name |-> "a", max_points |-> 2]>> }

PointsInputs == { [k \in {"a"} |-> 1], [k \in {"a"} |-> 2] }

\* ------------------------------------------------- RoundService.update_criteria
update_criteria_error(round_id, user) ==
    IF round_id \notin Rounds THEN "Round not found"
    ELSE IF user.role = "clubs" /\ club(round_id) # user.club
    THEN "You can only update criteria for your own rounds"
    ELSE IF rounds[round_id].is_frozen
    THEN "Cannot update criteria for frozen rounds"
    ELSE "ok"

update_criteria_result(round_id, criteria, user) ==
    IF update_criteria_error(round_id, user) # "ok" THEN rounds
    ELSE [rounds EXCEPT ![round_id].criteria = Some(criteria)]

update_criteria(round_id, criteria, user) ==
    /\ rounds' = update_criteria_result(round_id, criteria, user)
    /\ UNCHANGED <<teams, team_scores, round_weights>>

\* ------------------------------------------------- RoundService.evaluate_team
\* `if round_obj.criteria:` : neither None nor an empty list
CriteriaDefined(c) == ~c.null /\ Len(c.value) > 0

max_possible(c) ==
    LET mp == [i \in 1..Len(c.value) |-> Get(c.value[i], "max_points", 0)]
    IN SumValues(mp)

\* the score and is_normalized that evaluate_team stores for a present team
NormalizedScore(c, raw_total) ==
    IF CriteriaDefined(c)
    THEN IF max_possible(c) > 0
         THEN [score |-> IF (raw_total * 100) \div max_possible(c) < ScoreCap
                         THEN (raw_total * 100) \div max_possible(c)
                         ELSE ScoreCap,
               is_normalized |-> TRUE]
         ELSE [score |-> raw_total, is_normalized |-> FALSE]
    ELSE [score |-> IF raw_total < ScoreCap THEN raw_total ELSE ScoreCap,
          is_normalized |-> TRUE]

PresentRow(c, criteria_scores) ==
    LET raw_total == SumValues(criteria_scores)
        n == NormalizedScore(c, raw_total)
    IN [score |-> n.score, raw_total_score |-> raw_total,
        criteria_scores |-> criteria_scores,
        is_normalized |-> n.is_normalized, is_present |-> TRUE]

AbsentRow ==
    [score |-> 0, raw_total_score |-> 0, criteria_scores |-> <<>>,
     is_normalized |-> TRUE, is_present |-> FALSE]

\* an insert that keeps the row a key already has
Upsert_keeping_existing(table, key, row) ==
    [k \in DOMAIN table \cup {key} |-> IF k \in DOMAIN table THEN table[k] ELSE row]

\* insert or overwrite the row of one key
Upsert(table, key, row) ==
    [k \in DOMAIN table \cup {key} |-> IF k = key THEN row ELSE table[k]]

\* evaluate_team without its active-team guard
evaluate_team_error_any_team(round_id, team_id, user) ==
    IF round_id \notin Rounds THEN "Round not found"
    ELSE IF user.role = "clubs" /\ club(round_id) # user.club
    THEN "You can only evaluate teams for your own rounds"
    ELSE IF rounds[round_id].is_frozen
    THEN "Cannot evaluate teams for frozen rounds"
    ELSE "ok"

\* evaluate_team without its frozen-round guard
evaluate_team_error_unguarded(round_id, team_id, user) ==
    IF round_id \notin Rounds THEN "Round not found"
    ELSE IF user.role = "clubs" /\ club(round_id) # user.club
    THEN "You can only evaluate teams for your own rounds"
    ELSE IF team_id \notin Teams \/ teams[team_id] # "ACTIVE"
    THEN "Only active teams can be evaluated"
    ELSE "ok"

evaluate_team_error(round_id, team_id, user) ==
    IF round_id \notin Rounds THEN "Round not found"
    ELSE IF user.role = "clubs" /\ club(round_id) # user.club
    THEN "You can only evaluate teams for your own rounds"
    ELSE IF rounds[round_id].is_frozen
    THEN "Cannot evaluate teams for frozen rounds"
    ELSE IF team_id \notin Teams \/ teams[team_id] # "ACTIVE"
    THEN "Only active teams can be evaluated"
    ELSE "ok"

\* evaluate_team had it deleted the team it eliminates
evaluate_team_result_deleting(round_id, team_id, criteria_scores, user, is_present, eliminate_absentees) ==
    IF evaluate_team_error(round_id, team_id, user) # "ok"
    THEN [teams |-> teams, team_scores |-> team_scores]
    ELSE IF ~is_present
    THEN [teams |-> IF eliminate_absentees
                    THEN [t \in DOMAIN teams \ {team_id} |-> teams[t]]
                    ELSE teams,
          team_scores |-> Upsert(team_scores, <<team_id, round_id>>, AbsentRow)]
    ELSE [teams |-> teams,
          team_scores |-> Upsert(team_scores, <<team_id, round_id>>,
                                 PresentRow(rounds[round_id].criteria, criteria_scores))]

evaluate_team_result(round_id, team_id, criteria_scores, user, is_present, eliminate_absentees) ==
    IF evaluate_team_error(round_id, team_id, user) # "ok"
    THEN [teams |-> teams, team_scores |-> team_scores]
    ELSE IF ~is_present
    THEN [teams |-> IF eliminate_absentees
                    THEN [teams EXCEPT ![team_id] = "ELIMINATED"]
                    ELSE teams,
          team_scores |-> Upsert(team_scores, <<team_id, round_id>>, AbsentRow)]
    ELSE [teams |-> teams,
          team_scores |-> Upsert(team_scores, <<team_id, round_id>>,
                                 PresentRow(rounds[round_id].criteria, criteria_scores))]

evaluate_team(round_id, team_id, criteria_scores, user, is_present, eliminate_absentees) ==
    \E res \in {evaluate_team_result(round_id, team_id, criteria_scores, user,
                                    is_present, eliminate_absentees)} :
       /\ teams' = res.teams
       /\ team_scores' = res.team_scores
       /\ UNCHANGED <<rounds, round_weights>>

\* ------------------------------------------------- RoundService.freeze_round
RowsOfRound(round_id) == {k \in DOMAIN team_scores : k[2] = round_id}

\* freeze_round without its already-frozen and no-rows guards
freeze_round_error_unguarded(round_id, user) ==
    IF user.role \notin {"admin", "clubs"}
    THEN "Only PDA and club members can freeze rounds"
    ELSE IF round_id \notin Rounds THEN "Round not found"
    ELSE IF user.role = "clubs" /\ club(round_id) # user.club
    THEN "You can only freeze rounds for your own club"
    ELSE "ok"

freeze_round_error(round_id, user) ==
    IF user.role \notin {"admin", "clubs"}
    THEN "Only PDA and club members can freeze rounds"
    ELSE IF round_id \notin Rounds THEN "Round not found"
    ELSE IF user.role = "clubs" /\ club(round_id) # user.club
    THEN "You can only freeze rounds for your own club"
    ELSE IF rounds[round_id].is_frozen THEN "Round is already frozen"
    ELSE IF RowsOfRound(round_id) = {} THEN "No evaluations found for this round"
    ELSE "ok"

\* the statistics taken over every row, zero scores included
RoundStatistics_all_rows(round_id) ==
    LET keys == RowsOfRound(round_id)
        scores == {team_scores[k].score : k \in keys}
        total == SumOver([k \in keys |-> team_scores[k].score], keys)
    IN [max_score |-> IF keys = {} THEN 0 ELSE Max(scores),
        min_score |-> IF keys = {} THEN 0 ELSE Min(scores),
        avg_score |-> IF keys = {} THEN Frac(0, 1)
                      ELSE Frac(total, Cardinality(keys)),
        participated_count |-> Cardinality(keys)]

\* max, min, average over the scores > 0 and the number of rows
RoundStatistics(round_id) ==
    LET keys == RowsOfRound(round_id)
        pos == {k \in keys : team_scores[k].score > 0}
        scores == {team_scores[k].score : k \in pos}
        total == SumOver([k \in pos |-> team_scores[k].score], pos)
    IN [max_score |-> IF pos = {} THEN 0 ELSE Max(scores),
        min_score |-> IF pos = {} THEN 0 ELSE Min(scores),
        avg_score |-> IF pos = {} THEN Frac(0, 1)
                      ELSE Frac(total, Cardinality(pos)),
        participated_count |-> Cardinality(keys)]

freeze_round_result(round_id, user) ==
    IF freeze_round_error(round_id, user) # "ok" THEN rounds
    ELSE LET st == RoundStatistics(round_id)
         IN [rounds EXCEPT ![round_id] =
                [@ EXCEPT !.is_frozen = TRUE,
                          !.max_score = Some(st.max_score),
                          !.min_score = Some(st.min_score),
                          !.avg_score = Some(st.avg_score),
                          !.participated_count = st.participated_count]]

freeze_round(round_id, user) ==
    /\ rounds' = freeze_round_result(round_id, user)
    /\ UNCHANGED <<teams, team_scores, round_weights>>

\* ------------------------------------------------- GET /rounds/{round_id}/stats
\* open to every caller; reads the round and its rows, writes nothing
get_round_stats_error(round_id) ==
    IF round_id \notin Rounds THEN "Round not found" ELSE "ok"

get_round_stats(round_id) ==
    UNCHANGED <<teams, rounds, team_scores, round_weights>>

\* ------------------------------------------------- POST /rounds/{round_id}/unfreeze
\* The handler passes the admin check and then calls
\* RoundService.unfreeze_round, a method the class does not define.
unfreeze_round_error(round_id, user) ==
    IF user.role # "admin" THEN "Only PDA can access this resource"
    ELSE "AttributeError"

\* the HTTP status of the response: 403 from the admin check, else 500
unfreeze_round_status(round_id, user) ==
    IF unfreeze_round_error(round_id, user) = "Only PDA can access this resource"
    THEN 403 ELSE 500

unfreeze_round_result(round_id, user) == rounds

unfreeze_round(round_id, user) ==
    /\ rounds' = unfreeze_round_result(round_id, user)
    /\ UNCHANGED <<teams, team_scores, round_weights>>

\* ------------------------------------------------- aggregation scope
\* rows of a query over table rounds, in primary-key order
RECURSIVE RowsInOrder(_, _)
RowsInOrder(S, n) ==
    IF n = 0 THEN <<>>
    ELSE IF n \in S THEN Append(RowsInOrder(S, n - 1), n)
    ELSE RowsInOrder(S, n - 1)

evaluated_rounds ==
    RowsInOrder({r \in Rounds : rounds[r].is_evaluated /\ round_number(r) > 0}, NumRounds)

\* the frozen-rounds query without its round_number filter
frozen_rounds_any_number ==
    RowsInOrder({r \in Rounds : rounds[r].is_frozen /\ ~rounds[r].is_evaluated}, NumRounds)

\* the frozen-rounds query had it returned the latest frozen round only
frozen_rounds_latest_only ==
    LET undecided == RowsInOrder({r \in Rounds : rounds[r].is_frozen /\ ~rounds[r].is_evaluated
                                                 /\ round_number(r) > 0}, NumRounds)
    IN IF undecided = <<>> THEN <<>> ELSE <<undecided[Len(undecided)]>>

frozen_rounds ==
    RowsInOrder({r \in Rounds : rounds[r].is_frozen /\ ~rounds[r].is_evaluated
                                /\ round_number(r) > 0}, NumRounds)

Range(s) == {s[i] : i \in DOMAIN s}

all_round_ids == Range(evaluated_rounds \o frozen_rounds)

\* the weight rows after the missing ones of `ids` were created with the default
WithDefaultWeights(ids) ==
    [r \in DOMAIN round_weights \cup ids |->
        IF r \in DOMAIN round_weights THEN round_weights[r] ELSE DefaultWeight]

\* weights_cache as the pre-fetch builds it: every id of `ids`, stored or default
PrefetchedWeights(ids) ==
    [r \in ids |-> IF r \in DOMAIN round_weights THEN round_weights[r] ELSE DefaultWeight]

\* the weight of a round had a non-empty cache been final: the default for a
\* round the cache does not hold
WeightFor_cache_only(r, weights_cache) ==
    IF DOMAIN weights_cache # {} THEN Get(weights_cache, r, DefaultWeight)
    ELSE IF r \in DOMAIN round_weights THEN round_weights[r]
    ELSE DefaultWeight

\* dict truthiness of `weights_cache` and membership, else the stored row or the default
WeightFor(r, weights_cache) ==
    IF DOMAIN weights_cache # {} /\ r \in DOMAIN weights_cache THEN weights_cache[r]
    ELSE IF r \in DOMAIN round_weights THEN round_weights[r]
    ELSE DefaultWeight

\* RoundService._calculate_overall_score: None, or the weighted average as a
\* fraction (both sums taken times 100)
calculate_overall_score(team_id, weights_cache) ==
    LET round_ids == all_round_ids
        round_score == [r \in round_ids |->
                          IF <<team_id, r>> \in DOMAIN team_scores
                          THEN team_scores[<<team_id, r>>].score ELSE 0]
        weight == [r \in round_ids |-> WeightFor(r, weights_cache)]
        total_weighted_score == SumOver([r \in round_ids |-> round_score[r] * weight[r]], round_ids)
        total_weight == SumOver(weight, round_ids)
    IN IF round_ids = {} THEN None
       ELSE IF total_weight = 0 THEN None
       ELSE Some(Frac(total_weighted_score, total_weight))

Zero == Frac(0, 1)

\* a >= b and a > b on fractions with positive denominators
GE(a, b) == a.num * b.den >= b.num * a.den
GT(a, b) == a.num * b.den > b.num * a.den

\* `overall_score or 0.0`
OrZero(o) == IF o.null \/ o.value.num = 0 THEN Zero ELSE o.value

\* list.sort(key=..., reverse=True): stable, descending by key
RECURSIVE InsertDesc(_, _, _)
InsertDesc(sorted, x, key) ==
    IF sorted = <<>> THEN <<x>>
    ELSE IF GT(key[x], key[Head(sorted)]) THEN <<x>> \o sorted
    ELSE <<Head(sorted)>> \o InsertDesc(Tail(sorted), x, key)

RECURSIVE SortDesc(_, _)
SortDesc(s, key) ==
    IF s = <<>> THEN <<>>
    ELSE InsertDesc(SortDesc(SubSeq(s, 1, Len(s) - 1), key), s[Len(s)], key)

\* the teams query without its status filter
all_active_teams_any_status == RowsInOrder(Teams, NumTeams)

all_active_teams == RowsInOrder({t \in Teams : teams[t] = "ACTIVE"}, NumTeams)

SeqFilter(s, keep) ==
    LET F[i \in 0..Len(s)] ==
            IF i = 0 THEN <<>>
            ELSE IF keep[s[i]] THEN Append(F[i - 1], s[i]) ELSE F[i - 1]
    IN F[Len(s)]

\* ------------------------------------------------- RoundService.shortlist_teams
ShortlistInputs ==
    { [type |-> "top_k", value |-> 0], [type |-> "top_k", value |-> 1],
      [type |-> "top_k", value |-> 2], [type |-> "threshold", value |-> 2],
      [type |-> "threshold", value |-> 101], [type |-> "median", value |-> 1] }

\* shortlist_teams without its frozen-round guard
shortlist_teams_precheck_unguarded(round_id, user_role) ==
    IF user_role # "admin" THEN "Only PDA can shortlist teams"
    ELSE IF round_id \notin Rounds THEN "Round not found"
    ELSE IF all_active_teams = <<>> THEN "No active teams found for shortlisting"
    ELSE "ok"

\* the error raised before the weights are pre-fetched
shortlist_teams_precheck(round_id, user_role) ==
    IF user_role # "admin" THEN "Only PDA can shortlist teams"
    ELSE IF round_id \notin Rounds THEN "Round not found"
    ELSE IF ~rounds[round_id].is_frozen THEN "Round must be frozen before shortlisting"
    ELSE IF all_active_teams = <<>> THEN "No active teams found for shortlisting"
    ELSE "ok"

\* the error raised after the weights were pre-fetched and committed
shortlist_teams_argcheck(shortlist_type, value) ==
    IF shortlist_type = "top_k"
    THEN IF value <= 0 \/ value > Len(all_active_teams) THEN "Invalid top_k value" ELSE "ok"
    ELSE IF shortlist_type = "threshold"
    THEN IF value < 0 \/ value > 100 THEN "Invalid threshold value" ELSE "ok"
    ELSE "Invalid shortlist_type"

shortlist_teams_error(round_id, shortlist_type, value, user_role) ==
    IF shortlist_teams_precheck(round_id, user_role) # "ok"
    THEN shortlist_teams_precheck(round_id, user_role)
    ELSE shortlist_teams_argcheck(shortlist_type, value)

\* `round_obj` when the round is updated: the loop over evaluated_rounds +
\* frozen_rounds has rebound the name to the last row it visited
round_obj_after_loop(round_id) ==
    LET visited == evaluated_rounds \o frozen_rounds
    IN IF visited = <<>> THEN round_id ELSE visited[Len(visited)]

\* all_teams_with_scores left in query order
teams_by_overall_score_unsorted == all_active_teams

\* all_teams_with_scores after the sort: the active teams by overall score
teams_by_overall_score ==
    LET weights_cache == PrefetchedWeights(all_round_ids)
        score == [t \in Teams |-> OrZero(calculate_overall_score(t, weights_cache))]
    IN SortDesc(all_active_teams, score)

\* the teams a shortlist with valid arguments keeps
shortlisted_teams(shortlist_type, value) ==
    LET weights_cache == PrefetchedWeights(all_round_ids)
        score == [t \in Teams |-> OrZero(calculate_overall_score(t, weights_cache))]
    IN IF shortlist_type = "top_k"
       THEN SubSeq(teams_by_overall_score, 1, value)
       ELSE SeqFilter(teams_by_overall_score,
                      [t \in Teams |-> GE(score[t], Frac(value, 1))])

shortlist_teams_result(round_id, shortlist_type, value, user_role) ==
    IF shortlist_teams_precheck(round_id, user_role) # "ok"
    THEN [teams |-> teams, rounds |-> rounds, round_weights |-> round_weights]
    ELSE IF shortlist_teams_argcheck(shortlist_type, value) # "ok"
    THEN [teams |-> teams, rounds |-> rounds,
          round_weights |-> WithDefaultWeights(all_round_ids)]
    ELSE LET kept == shortlisted_teams(shortlist_type, value)
             target == round_obj_after_loop(round_id)
         IN [teams |-> [t \in Teams |->
                          IF teams[t] # "ACTIVE" THEN teams[t]
                          ELSE IF t \in Range(kept) THEN "ACTIVE"
                          ELSE "ELIMINATED"],
             rounds |-> [rounds EXCEPT ![target] =
                           [@ EXCEPT !.shortlisted_teams = Some(kept),
                                     !.is_evaluated = TRUE]],
             round_weights |-> WithDefaultWeights(all_round_ids)]

shortlist_teams(round_id, shortlist_type, value, user_role) ==
    \E res \in {shortlist_teams_result(round_id, shortlist_type, value, user_role)} :
       /\ teams' = res.teams
       /\ rounds' = res.rounds
       /\ round_weights' = res.round_weights
       /\ UNCHANGED team_scores

\* ------------------------------------------------- GET /api/leaderboard
\* 'weighted_average' of a team before it is rounded for display: the sums
\* over all_round_ids with weights_cache.get(round_id, 100.0), both times 100
leaderboard_weighted_average(team_id) ==
    LET weights_cache == PrefetchedWeights(all_round_ids)
        round_score == [r \in all_round_ids |->
                          IF <<team_id, r>> \in DOMAIN team_scores
                          THEN team_scores[<<team_id, r>>].score ELSE 0]
        total_weighted_score ==
            SumOver([r \in all_round_ids |->
                        round_score[r] * Get(weights_cache, r, DefaultWeight)], all_round_ids)
        total_weight ==
            SumOver([r \in all_round_ids |-> Get(weights_cache, r, DefaultWeight)], all_round_ids)
    IN Frac(total_weighted_score, total_weight)

\* round(x, 2) of a fraction, in hundredths; a value half way between two
\* hundredths goes to the even one
Round2(f) ==
    LET q == (f.num * 100) \div f.den
        rem == (f.num * 100) % f.den
    IN IF 2 * rem > f.den THEN q + 1
       ELSE IF 2 * rem < f.den THEN q
       ELSE IF q % 2 = 0 THEN q ELSE q + 1

\* `db.query(Team).all()`: every team, whatever its status
all_teams == RowsInOrder(Teams, NumTeams)

\* "weighted_average" of a leaderboard entry, in hundredths
leaderboard_entry_average(team_id) == Round2(leaderboard_weighted_average(team_id))

\* "final_score" of an entry after the normalization loop, in hundredths
leaderboard_final_score(team_id) ==
    LET max_score == Max({leaderboard_entry_average(t) : t \in Teams})
    IN IF max_score > 0
       THEN Round2(Frac(leaderboard_entry_average(team_id) * 100, max_score))
       ELSE 0

\* the team ids of "teams" in the response, the entry of rank i at position i
get_leaderboard ==
    IF all_round_ids = {} \/ SumOver(PrefetchedWeights(all_round_ids), all_round_ids) = 0
    THEN <<>>
    ELSE SortDesc(all_teams, [t \in Teams |-> Frac(leaderboard_final_score(t), 1)])

\* the handler as a whole: it commits a default weight for every in-scope
\* round without one and writes nothing else
get_leaderboard_call ==
    /\ round_weights' = WithDefaultWeights(all_round_ids)
    /\ UNCHANGED <<teams, rounds, team_scores>>

\* ------------------------------------------------- POST /api/leaderboard/shortlist
shortlist_by_overall_precheck(shortlist_type, user) ==
    IF user.role # "admin" THEN "Only PDA can access this resource"
    ELSE IF shortlist_type \notin {"top_k", "threshold"} THEN "Invalid shortlist type"
    ELSE IF all_active_teams = <<>> THEN "No active teams found for shortlisting"
    ELSE IF evaluated_rounds \o frozen_rounds = <<>>
    THEN "No evaluated or frozen rounds found for shortlisting"
    ELSE "ok"

\* total_weight of one team over the in-scope rounds (times 100)
leaderboard_total_weight ==
    SumOver(PrefetchedWeights(all_round_ids), all_round_ids)

\* 'overall_score' of the handler: the weighted average divided by the
\* team's own highest in-scope score, times 100
leaderboard_normalized_score(team_id) ==
    LET wa == calculate_overall_score(team_id, PrefetchedWeights(all_round_ids)).value
        own == {team_scores[k].score : k \in {k \in DOMAIN team_scores :
                                                k[1] = team_id /\ k[2] \in all_round_ids}}
        max_possible_score == IF own = {} THEN 100 ELSE Max(own)
    IN IF max_possible_score > 0
       THEN Frac(wa.num * 100, wa.den * max_possible_score)
       ELSE Zero

leaderboard_teams_with_scores ==
    IF leaderboard_total_weight > 0
    THEN SortDesc(all_active_teams, [t \in Teams |-> leaderboard_normalized_score(t)])
    ELSE <<>>

shortlist_by_overall_argcheck(shortlist_type, value) ==
    IF leaderboard_teams_with_scores = <<>> THEN "No teams with scores found for shortlisting"
    ELSE IF shortlist_type = "top_k"
    THEN IF value <= 0 \/ value > Len(leaderboard_teams_with_scores)
         THEN "Invalid top_k value" ELSE "ok"
    ELSE IF value < 0 \/ value > 100 THEN "Invalid threshold value" ELSE "ok"

shortlist_by_overall_error(shortlist_type, value, user) ==
    IF shortlist_by_overall_precheck(shortlist_type, user) # "ok"
    THEN shortlist_by_overall_precheck(shortlist_type, user)
    ELSE shortlist_by_overall_argcheck(shortlist_type, value)

leaderboard_shortlisted_teams(shortlist_type, value) ==
    IF shortlist_type = "top_k"
    THEN SubSeq(leaderboard_teams_with_scores, 1, value)
    ELSE SeqFilter(leaderboard_teams_with_scores,
                   [t \in Teams |-> GE(leaderboard_normalized_score(t),
                                       Frac(value, 1))])

shortlist_by_overall_result(shortlist_type, value, user) ==
    IF shortlist_by_overall_precheck(shortlist_type, user) # "ok"
    THEN [teams |-> teams, rounds |-> rounds, round_weights |-> round_weights]
    ELSE IF shortlist_by_overall_argcheck(shortlist_type, value) # "ok"
    THEN [teams |-> teams, rounds |-> rounds,
          round_weights |-> WithDefaultWeights(all_round_ids)]
    ELSE LET listed == Range(leaderboard_teams_with_scores)
             kept == Range(leaderboard_shortlisted_teams(shortlist_type, value))
         IN [teams |-> [t \in Teams |->
                          IF t \notin listed THEN teams[t]
                          ELSE IF t \in kept THEN "ACTIVE"
                          ELSE "ELIMINATED"],
             rounds |-> [r \in Rounds |->
                           IF r \in Range(frozen_rounds)
                           THEN [rounds[r] EXCEPT !.is_evaluated = TRUE]
                           ELSE rounds[r]],
             round_weights |-> WithDefaultWeights(all_round_ids)]

shortlist_teams_by_overall_score(shortlist_type, value, user) ==
    \E res \in {shortlist_by_overall_result(shortlist_type, value, user)} :
       /\ teams' = res.teams
       /\ rounds' = res.rounds
       /\ round_weights' = res.round_weights
       /\ UNCHANGED team_scores

\* ------------------------------------------------- RoundService.toggle_elimination_setting
toggle_elimination_setting_error(round_id) ==
    IF round_id \notin Rounds THEN "Round not found" ELSE "ok"

\* the teams the call sets ACTIVE
toggle_reactivated(round_id, eliminate_absentees) ==
    IF eliminate_absentees THEN {}
    ELSE {t \in Teams : /\ teams[t] = "ELIMINATED"
                        /\ <<t, round_id>> \in DOMAIN team_scores
                        /\ ~team_scores[<<t, round_id>>].is_present}

toggle_elimination_setting_result(round_id, eliminate_absentees) ==
    IF toggle_elimination_setting_error(round_id) # "ok" THEN teams
    ELSE [t \in Teams |->
            IF t \in toggle_reactivated(round_id, eliminate_absentees)
            THEN "ACTIVE" ELSE teams[t]]

toggle_elimination_setting(round_id, eliminate_absentees) ==
    /\ teams' = toggle_elimination_setting_result(round_id, eliminate_absentees)
    /\ UNCHANGED <<rounds, team_scores, round_weights>>

\* ------------------------------------------------- RoundService.handle_absentees_after_freezing
\* handle_absentees_after_freezing without its frozen-round guard
handle_absentees_error_unguarded(round_id) ==
    IF round_id \notin Rounds THEN "Round not found" ELSE "ok"

handle_absentees_error(round_id) ==
    IF round_id \notin Rounds THEN "Round not found"
    ELSE IF ~rounds[round_id].is_frozen THEN "Round must be frozen before handling absentees"
    ELSE "ok"

handle_absentees_eliminated(round_id, eliminate_absentees) ==
    IF ~eliminate_absentees THEN {}
    ELSE {t \in Teams : /\ <<t, round_id>> \in DOMAIN team_scores
                        /\ ~team_scores[<<t, round_id>>].is_present
                        /\ teams[t] # "ELIMINATED"}

\* the reactivation restricted to the teams absent in the round
handle_absentees_reactivated_absent_only(round_id, eliminate_absentees) ==
    IF eliminate_absentees THEN {}
    ELSE {t \in Teams : /\ <<t, round_id>> \in DOMAIN team_scores
                        /\ ~team_scores[<<t, round_id>>].is_present
                        /\ teams[t] = "ELIMINATED"}

handle_absentees_reactivated(round_id, eliminate_absentees) ==
    IF eliminate_absentees THEN {}
    ELSE {t \in Teams : /\ <<t, round_id>> \in DOMAIN team_scores
                        /\ teams[t] = "ELIMINATED"}

handle_absentees_result(round_id, eliminate_absentees) ==
    IF handle_absentees_error(round_id) # "ok" THEN teams
    ELSE [t \in Teams |->
            IF t \in handle_absentees_eliminated(round_id, eliminate_absentees)
            THEN "ELIMINATED"
            ELSE IF t \in handle_absentees_reactivated(round_id, eliminate_absentees)
            THEN "ACTIVE" ELSE teams[t]]

handle_absentees_after_freezing(round_id, eliminate_absentees) ==
    /\ teams' = handle_absentees_result(round_id, eliminate_absentees)
    /\ UNCHANGED <<rounds, team_scores, round_weights>>

\* ------------------------------------------------- PUT /api/leaderboard/weights/{round_id}
WeightInputs == {10, 50}

\* update_round_weight without the range validation of its request body
update_round_weight_error_unvalidated(round_id, weight_percentage, user) ==
    IF user.role # "admin" THEN "Only PDA can access this resource"
    ELSE IF round_id \notin Rounds THEN "Round not found"
    ELSE "ok"

update_round_weight_error(round_id, weight_percentage, user) ==
    IF user.role # "admin" THEN "Only PDA can access this resource"
    ELSE IF weight_percentage < MinWeight \/ weight_percentage > MaxWeight
    THEN "validation error"
    ELSE IF round_id \notin Rounds THEN "Round not found"
    ELSE "ok"

update_round_weight_result(round_id, weight_percentage, user) ==
    IF update_round_weight_error(round_id, weight_percentage, user) # "ok" THEN round_weights
    ELSE Upsert(round_weights, round_id, weight_percentage)

update_round_weight(round_id, weight_percentage, user) ==
    /\ round_weights' = update_round_weight_result(round_id, weight_percentage, user)
    /\ UNCHANGED <<teams, rounds, team_scores>>

\* ------------------------- PUT /api/rounds/rounds/{r}/evaluate/{t}
\* TeamEvaluationRequest declares these fields and no other
TeamEvaluationRequestFields == {"criteria_scores", "is_present"}

\* the request object parsed from a JSON body: keys the schema does not
\* declare are dropped, is_present defaults to True
TeamEvaluationRequest(body) ==
    [f \in TeamEvaluationRequestFields |->
        IF f \in DOMAIN body THEN body[f] ELSE TRUE]

\* the handler reads evaluation_request.eliminate_absentees to build the
\* arguments of the service call
evaluate_team_endpoint_error(round_id, team_id, body, user) ==
    IF user.role \notin {"admin", "clubs"}
    THEN "Only club members or PDA can access this resource"
    ELSE IF "criteria_scores" \notin DOMAIN body THEN "validation error"
    ELSE IF "eliminate_absentees" \notin DOMAIN TeamEvaluationRequest(body)
    THEN "AttributeError"
    ELSE evaluate_team_error(round_id, team_id, user)

evaluate_team_endpoint_result(round_id, team_id, body, user) ==
    IF evaluate_team_endpoint_error(round_id, team_id, body, user) # "ok"
    THEN [teams |-> teams, team_scores |-> team_scores]
    ELSE LET evaluation_request == TeamEvaluationRequest(body)
         IN evaluate_team_result(round_id, team_id, evaluation_request.criteria_scores,
                                 user, evaluation_request.is_present,
                                 evaluation_request.eliminate_absentees)

evaluate_team_endpoint(round_id, team_id, body, user) ==
    \E res \in {evaluate_team_endpoint_result(round_id, team_id, body, user)} :
        /\ teams' = res.teams
        /\ team_scores' = res.team_scores
        /\ UNCHANGED <<rounds, round_weights>>

EvaluationBodies ==
    { [criteria_scores |-> [k \in {"a"} |-> 1], is_present |-> p, eliminate_absentees |-> e] :
          p \in BOOLEAN, e \in BOOLEAN }
        \cup { [criteria_scores |-> [k \in {"a"} |-> 1]] }

\* ------------------------------------------- PUT /api/team-scores/{r}/{t}
\* `setattr(obj, field, value)` for every field of the request body that was
\* set and that the row has
SetFields(row, update_data) ==
    [f \in DOMAIN row |-> IF f \in DOMAIN update_data THEN update_data[f] ELSE row[f]]

\* TeamScoreUpdate: score ge=0 le=100, raw_total_score ge=0
ScoreUpdateValid(score_update) ==
    /\ "score" \in DOMAIN score_update =>
          0 <= score_update.score /\ score_update.score <= ScoreCap
    /\ "raw_total_score" \in DOMAIN score_update => 0 <= score_update.raw_total_score

ScoreUpdateInputs ==
    { [is_present |-> FALSE], [score |-> 50], [score |-> 101] }

update_team_score_error(round_id, team_id, score_update, user) ==
    IF user.role \notin {"admin", "clubs"}
    THEN "Only club members or PDA can access this resource"
    ELSE IF ~ScoreUpdateValid(score_update) THEN "validation error"
    ELSE IF <<team_id, round_id>> \notin DOMAIN team_scores THEN "Team score not found"
    ELSE "ok"

update_team_score_result(round_id, team_id, score_update, user) ==
    IF update_team_score_error(round_id, team_id, score_update, user) # "ok"
    THEN team_scores
    ELSE [team_scores EXCEPT ![<<team_id, round_id>>] = SetFields(@, score_update)]

update_team_score(round_id, team_id, score_update, user) ==
    /\ team_scores' = update_team_score_result(round_id, team_id, score_update, user)
    /\ UNCHANGED <<teams, rounds, round_weights>>

\* ------------------------------------ PUT /api/rounds/{event_id}/{number}
EventUpdateInputs ==
    { [criteria |-> Some(<<[name |-> "b", max_points |-> 3]>>)] }

update_event_or_round_error(round_id, user) ==
    IF user.role \notin {"admin", "clubs"}
    THEN "Only club members or PDA can access this resource"
    ELSE IF round_id \notin Rounds THEN "Event or round not found"
    ELSE IF user.role = "clubs" /\ club(round_id) # user.club
    THEN "You can only update rounds assigned to your club"
    ELSE "ok"

update_event_or_round_result(round_id, event_update, user) ==
    IF update_event_or_round_error(round_id, user) # "ok" THEN rounds
    ELSE [rounds EXCEPT ![round_id] = SetFields(@, event_update)]

update_event_or_round(round_id, event_update, user) ==
    /\ rounds' = update_event_or_round_result(round_id, event_update, user)
    /\ UNCHANGED <<teams, team_scores, round_weights>>

\* ------------------------------- GET /api/leaderboard/evaluated-rounds
\* The handler is a sequence of database statements; statements of requests
\* served side by side interleave.  Each step below is one statement (the two
\* round queries are taken together).

\* the two round queries: the in-scope rounds, in the order the loop visits them
get_evaluated_rounds_begin(p) ==
    /\ readers[p].pc = "idle"
    /\ readers' = [readers EXCEPT ![p] =
                      [pc |-> "select", todo |-> evaluated_rounds \o frozen_rounds,
                       weights |-> <<>>]]
    /\ UNCHANGED store

\* `db.query(RoundWeight).filter(round_id == ...).first()` for the next round;
\* with the list exhausted the handler returns its response
get_evaluated_rounds_select(p) ==
    /\ readers[p].pc = "select"
    /\ readers' = [readers EXCEPT ![p] =
          IF @.todo = <<>> THEN [@ EXCEPT !.pc = "done"]
          ELSE IF Head(@.todo) \in DOMAIN round_weights
          THEN [@ EXCEPT !.todo = Tail(@),
                         !.weights = Upsert(@, Head(readers[p].todo),
                                            round_weights[Head(readers[p].todo)])]
          ELSE [@ EXCEPT !.pc = "insert"]]
    /\ UNCHANGED store

\* `db.add(weight); db.commit()` after the query found no row: round_id is
\* unique, so the commit raises IntegrityError when a row exists by now, and
\* nothing in the handler catches it
get_evaluated_rounds_insert(p) ==
    /\ readers[p].pc = "insert"
    /\ LET r == Head(readers[p].todo)
       IN IF r \in DOMAIN round_weights
          THEN /\ readers' = [readers EXCEPT ![p].pc = "failed"]
               /\ UNCHANGED store
          ELSE /\ round_weights' = Upsert(round_weights, r, DefaultWeight)
               /\ readers' = [readers EXCEPT ![p] =
                                 [@ EXCEPT !.pc = "select", !.todo = Tail(@),
                                           !.weights = Upsert(@, r, DefaultWeight)]]
               /\ UNCHANGED <<teams, rounds, team_scores, extra_rows>>

\* the response (or the error) has gone out; the slot takes the next request
get_evaluated_rounds_end(p) ==
    /\ readers[p].pc \in {"done", "failed"}
    /\ readers' = [readers EXCEPT ![p] = IdleRequest]
    /\ UNCHANGED store

\* --------------------- RoundService.evaluate_team, statement by statement
\* The queries of the call (round, team, TeamScore row) with its guards: the
\* call raises, or goes on holding what it has read
evaluate_team_begin(p, round_id, team_id, criteria_scores, user, is_present, eliminate_absentees) ==
    /\ requests[p].pc = "idle"
    /\ requests' = [requests EXCEPT ![p] =
          IF evaluate_team_error(round_id, team_id, user) # "ok"
          THEN [pc |-> "failed", op |-> "evaluate_team",
                error |-> evaluate_team_error(round_id, team_id, user)]
          ELSE [pc |-> "commit", op |-> "evaluate_team",
                round_id |-> round_id, team_id |-> team_id,
                criteria |-> rounds[round_id].criteria,
                criteria_scores |-> criteria_scores,
                is_present |-> is_present, eliminate_absentees |-> eliminate_absentees,
                found |-> <<team_id, round_id>> \in DOMAIN team_scores]]
    /\ UNCHANGED store

\* the rows the commit of request q leaves: the row it found is overwritten; a
\* row it did not find is inserted, next to any row committed for the pair
\* in the meantime
evaluate_team_commit_result(q) ==
    LET key == <<q.team_id, q.round_id>>
        row == IF q.is_present THEN PresentRow(q.criteria, q.criteria_scores)
               ELSE AbsentRow
    IN [teams |-> IF ~q.is_present /\ q.eliminate_absentees
                  THEN [teams EXCEPT ![q.team_id] = "ELIMINATED"]
                  ELSE teams,
        team_scores |-> IF q.found \/ key \notin DOMAIN team_scores
                        THEN Upsert(team_scores, key, row)
                        ELSE team_scores,
        extra_rows |-> IF q.found \/ key \notin DOMAIN team_scores
                       THEN extra_rows
                       ELSE Append(extra_rows, [key |-> key, row |-> row])]

\* `self.db.commit()`: nothing is read again before it
evaluate_team_commit(p) ==
    /\ requests[p].pc = "commit" /\ requests[p].op = "evaluate_team"
    /\ \E res \in {evaluate_team_commit_result(requests[p])} :
          /\ teams' = res.teams
          /\ team_scores' = res.team_scores
          /\ extra_rows' = res.extra_rows
    /\ requests' = [requests EXCEPT ![p] = [pc |-> "done", op |-> "evaluate_team"]]
    /\ UNCHANGED <<rounds, round_weights>>

\* -------------------- RoundService.shortlist_teams, statement by statement
\* The queries of the call with its first guards: the round, the ACTIVE teams,
\* the rounds in scope and their stored weights
shortlist_teams_begin(p, round_id, shortlist_type, value, user_role) ==
    /\ requests[p].pc = "idle"
    /\ requests' = [requests EXCEPT ![p] =
          IF shortlist_teams_precheck(round_id, user_role) # "ok"
          THEN [pc |-> "failed", op |-> "shortlist_teams",
                error |-> shortlist_teams_precheck(round_id, user_role)]
          ELSE [pc |-> IF all_round_ids \subseteq DOMAIN round_weights
                       THEN "commit" ELSE "weights",
                op |-> "shortlist_teams",
                round_id |-> round_id, shortlist_type |-> shortlist_type, value |-> value,
                active |-> all_active_teams,
                target |-> round_obj_after_loop(round_id),
                weights_cache |-> PrefetchedWeights(all_round_ids),
                missing_round_ids |-> all_round_ids \ DOMAIN round_weights]]
    /\ UNCHANGED store

\* `self.db.commit()` of the missing weights: round_id is unique, so the
\* commit raises IntegrityError when one of the rows exists by now; the
\* handler rolls back and answers with status 500
shortlist_teams_weights(p) ==
    /\ requests[p].pc = "weights" /\ requests[p].op = "shortlist_teams"
    /\ IF requests[p].missing_round_ids \cap DOMAIN round_weights # {}
       THEN /\ requests' = [requests EXCEPT ![p] =
                              [pc |-> "failed", op |-> "shortlist_teams",
                               error |-> "IntegrityError"]]
            /\ UNCHANGED store
       ELSE /\ round_weights' = WithDefaultWeights(requests[p].missing_round_ids)
            /\ requests' = [requests EXCEPT ![p].pc = "commit"]
            /\ UNCHANGED <<teams, rounds, team_scores, extra_rows>>

\* all_teams_with_scores of request q after the sort: the teams it read as
\* ACTIVE, by the overall score computed now with its weights_cache
shortlist_teams_sorted(q) ==
    LET score == [t \in Teams |-> OrZero(calculate_overall_score(t, q.weights_cache))]
    IN SortDesc(q.active, score)

shortlist_teams_kept(q) ==
    LET score == [t \in Teams |-> OrZero(calculate_overall_score(t, q.weights_cache))]
    IN IF q.shortlist_type = "top_k"
       THEN SubSeq(shortlist_teams_sorted(q), 1, q.value)
       ELSE SeqFilter(shortlist_teams_sorted(q),
                      [t \in Teams |-> GE(score[t], Frac(q.value, 1))])

shortlist_teams_commit_error(q) ==
    IF q.shortlist_type = "top_k"
    THEN IF q.value <= 0 \/ q.value > Len(q.active) THEN "Invalid top_k value" ELSE "ok"
    ELSE IF q.shortlist_type = "threshold"
    THEN IF q.value < 0 \/ q.value > 100 THEN "Invalid threshold value" ELSE "ok"
    ELSE "Invalid shortlist_type"

\* The status writes and the round update, committed together.  A team the
\* call keeps is assigned ACTIVE, the value the session read for it: whether
\* that reaches the table when the row has changed since depends on whether
\* the session still holds the row as it read it (rewrite).
shortlist_teams_commit_result(q, rewrite) ==
    LET kept == shortlist_teams_kept(q)
    IN [teams |-> [t \in Teams |->
                     IF t \notin Range(q.active) THEN teams[t]
                     ELSE IF t \in Range(kept)
                     THEN (IF rewrite THEN "ACTIVE" ELSE teams[t])
                     ELSE "ELIMINATED"],
        rounds |-> [rounds EXCEPT ![q.target] =
                      [@ EXCEPT !.shortlisted_teams = Some(kept),
                                !.is_evaluated = TRUE]]]

shortlist_teams_commit(p) ==
    /\ requests[p].pc = "commit" /\ requests[p].op = "shortlist_teams"
    /\ IF shortlist_teams_commit_error(requests[p]) # "ok"
       THEN /\ requests' = [requests EXCEPT ![p] =
                              [pc |-> "failed", op |-> "shortlist_teams",
                               error |-> shortlist_teams_commit_error(requests[p])]]
            /\ UNCHANGED store
       ELSE /\ \E rewrite \in BOOLEAN :
                 \E res \in {shortlist_teams_commit_result(requests[p], rewrite)} :
                    /\ teams' = res.teams
                    /\ rounds' = res.rounds
            /\ requests' = [requests EXCEPT ![p] =
                              [pc |-> "done", op |-> "shortlist_teams",
                               round_id |-> requests[p].round_id,
                               target |-> requests[p].target]]
            /\ UNCHANGED <<team_scores, round_weights, extra_rows>>

\* the response (or the error) has gone out; the slot takes the next call
request_end(p) ==
    /\ requests[p].pc \in {"done", "failed"}
    /\ requests' = [requests EXCEPT ![p] = NoRequest]
    /\ UNCHANGED store

\* ------------------------------------------------- specification
Admin == [role |-> "admin", club |-> "pda"]

\* the main event record (round_number 0) and the rounds proper
EventRecord == 1
RealRounds == Rounds \ {EventRecord}

\* is_present and eliminate_absentees of the evaluations offered
PresenceInputs == {<<TRUE, TRUE>>, <<FALSE, TRUE>>, <<FALSE, FALSE>>}

\* `calls` counts the calls that changed a table
Budget ==
    /\ store' # store => calls < MaxCalls
    /\ calls' = IF store' = store THEN calls ELSE calls + 1

Counted == UNCHANGED <<readers, eliminated_by, requests, extra_rows>> /\ Budget

\* the history of a step whose eliminations have the given cause
Caused(cause, round_id) ==
    eliminated_by' =
        [t \in Teams |->
            IF teams'[t] = teams[t] THEN eliminated_by[t]
            ELSE IF teams'[t] = "ELIMINATED" THEN [cause |-> cause, round |-> round_id]
            ELSE NotEliminated]

Recorded(cause, round_id) ==
    UNCHANGED <<readers, requests, extra_rows>> /\ Budget /\ Caused(cause, round_id)

\* the round life cycle: every operation, one criteria list, one points dict
Next ==
    \/ \E r \in Rounds, c \in CriteriaInputs : update_criteria(r, c, Admin) /\ Counted
    \/ \E r \in RealRounds, t \in Teams, pe \in PresenceInputs :
          evaluate_team(r, t, [k \in {"a"} |-> 1], Admin, pe[1], pe[2]) /\ Counted
    \/ \E r \in Rounds, u \in Users : freeze_round(r, u) /\ Counted
    \/ \E r \in Rounds, u \in Users : unfreeze_round(r, u) /\ Counted
    \/ \E r \in Rounds, a \in ShortlistInputs :
          shortlist_teams(r, a.type, a.value, "admin") /\ Counted
    \/ \E a \in ShortlistInputs :
          shortlist_teams_by_overall_score(a.type, a.value, Admin) /\ Counted
    \/ \E r \in Rounds, e \in BOOLEAN : toggle_elimination_setting(r, e) /\ Counted
    \/ \E r \in Rounds, e \in BOOLEAN : handle_absentees_after_freezing(r, e) /\ Counted

Spec == Init /\ [][Next]_vars

\* scores, weights and shortlisting: evaluations of every record of table
\* rounds with two points dicts, weight updates, both shortlist calls
NextScores ==
    \/ \E r \in Rounds, t \in Teams, cs \in PointsInputs :
          evaluate_team(r, t, cs, Admin, TRUE, FALSE) /\ Counted
    \/ \E r \in Rounds : freeze_round(r, Admin) /\ Counted
    \/ \E r \in Rounds, w \in WeightInputs : update_round_weight(r, w, Admin) /\ Counted
    \/ \E r \in Rounds, a \in ShortlistInputs :
          shortlist_teams(r, a.type, a.value, "admin") /\ Counted
    \/ \E a \in ShortlistInputs :
          shortlist_teams_by_overall_score(a.type, a.value, Admin) /\ Counted

SpecScores == Init /\ [][NextScores]_vars

\* normalisation: criteria lists with and without max_points, an empty list,
\* and points dicts whose totals lie below, at and above the maxima.  The
\* maxima (2 and 5) divide 100 * raw_total, so the quotient is exact.
NormCriteriaInputs ==
    { <<>>,
      <<[name |-> "a", max_points |-> 2]>>,
      <<[name |-> "a", max_points |-> 2], [name |-> "b", max_points |-> 3]>>,
      <<[name |-> "a", max_points |-> 0]>>,
      <<[name |-> "a", max_score |-> 10]>> }

NormPointsInputs ==
    { [k \in {"a"} |-> 0], [k \in {"a"} |-> 1], [k \in {"a"} |-> 2],
      [k \in {"a"} |-> 100], [k \in {"a"} |-> 150],
      [k \in {"a", "b"} |-> IF k = "a" THEN 1 ELSE 3] }

NextNorm ==
    \/ \E r \in RealRounds, c \in NormCriteriaInputs : update_criteria(r, c, Admin) /\ Counted
    \/ \E r \in RealRounds, cs \in NormPointsInputs, p \in BOOLEAN :
          evaluate_team(r, 1, cs, Admin, p, FALSE) /\ Counted

SpecNorm == Init /\ [][NextNorm]_vars

\* the two generic update endpoints next to the round service
NextEdit ==
    \/ \E r \in RealRounds, c \in CriteriaInputs : update_criteria(r, c, Admin) /\ Counted
    \/ \E r \in RealRounds, t \in Teams, p \in BOOLEAN :
          evaluate_team(r, t, [k \in {"a"} |-> 1], Admin, p, FALSE) /\ Counted
    \/ \E r \in RealRounds : freeze_round(r, Admin) /\ Counted
    \/ \E r \in RealRounds, t \in Teams, su \in ScoreUpdateInputs, u \in Users :
          update_team_score(r, t, su, u) /\ Counted
    \/ \E r \in RealRounds, eu \in EventUpdateInputs, u \in Users :
          update_event_or_round(r, eu, u) /\ Counted
    \/ \E r \in RealRounds, t \in Teams, b \in EvaluationBodies, u \in Users :
          evaluate_team_endpoint(r, t, b, u) /\ Counted

SpecEdit == Init /\ [][NextEdit]_vars

\* weight reads served side by side, next to evaluation and freezing
NextReads ==
    \/ \E r \in RealRounds : evaluate_team(r, 1, [k \in {"a"} |-> 1], Admin, TRUE, FALSE) /\ Counted
    \/ \E r \in RealRounds : freeze_round(r, Admin) /\ Counted
    \/ \E p \in Readers : get_evaluated_rounds_begin(p) /\ Budget /\ UNCHANGED <<eliminated_by, requests>>
    \/ \E p \in Readers : get_evaluated_rounds_select(p) /\ Budget /\ UNCHANGED <<eliminated_by, requests>>
    \/ \E p \in Readers : get_evaluated_rounds_insert(p) /\ Budget /\ UNCHANGED <<eliminated_by, requests>>
    \/ \E p \in Readers : get_evaluated_rounds_end(p) /\ Budget /\ UNCHANGED <<eliminated_by, requests>>

SpecReads == Init /\ [][NextReads]_vars

\* eliminations and reactivations, with the cause of every elimination recorded
NextCause ==
    \/ \E r \in RealRounds, t \in Teams, pe \in PresenceInputs :
          evaluate_team(r, t, [k \in {"a"} |-> 1], Admin, pe[1], pe[2]) /\ Recorded("absence", r)
    \/ \E r \in RealRounds : freeze_round(r, Admin) /\ Recorded("none", r)
    \/ \E r \in RealRounds, a \in ShortlistInputs :
          shortlist_teams(r, a.type, a.value, "admin") /\ Recorded("shortlist", UnknownId)
    \/ \E r \in RealRounds, e \in BOOLEAN :
          toggle_elimination_setting(r, e) /\ Recorded("none", r)
    \/ \E r \in RealRounds, e \in BOOLEAN :
          handle_absentees_after_freezing(r, e) /\ Recorded("absence", r)

SpecCause == Init /\ [][NextCause]_vars

InFlight == Budget /\ UNCHANGED <<readers, eliminated_by>>

\* one evaluation in flight at a time, next to freeze_round
NextFreezeRace ==
    \/ \E r \in RealRounds, t \in Teams, cs \in PointsInputs :
          evaluate_team_begin(1, r, t, cs, Admin, TRUE, FALSE) /\ InFlight
    \/ evaluate_team_commit(1) /\ InFlight
    \/ request_end(1) /\ InFlight
    \/ \E r \in RealRounds : freeze_round(r, Admin) /\ Counted

SpecFreezeRace == Init /\ [][NextFreezeRace]_vars

\* evaluations in flight side by side
NextInsertRace ==
    \/ \E p \in Readers, r \in RealRounds, t \in Teams, cs \in PointsInputs :
          evaluate_team_begin(p, r, t, cs, Admin, TRUE, FALSE) /\ InFlight
    \/ \E p \in Readers : evaluate_team_commit(p) /\ InFlight
    \/ \E p \in Readers : request_end(p) /\ InFlight

SpecInsertRace == Init /\ [][NextInsertRace]_vars

RaceShortlistInputs ==
    { [type |-> "top_k", value |-> 1], [type |-> "top_k", value |-> 2] }

\* shortlist calls in flight side by side on evaluated and frozen rounds
NextShortlistRace ==
    \/ \E r \in RealRounds : evaluate_team(r, 1, [k \in {"a"} |-> 1], Admin, TRUE, FALSE) /\ Counted
    \/ \E r \in RealRounds : freeze_round(r, Admin) /\ Counted
    \/ \E p \in Readers, r \in RealRounds, a \in RaceShortlistInputs :
          shortlist_teams_begin(p, r, a.type, a.value, "admin") /\ InFlight
    \/ \E p \in Readers : shortlist_teams_weights(p) /\ InFlight
    \/ \E p \in Readers : shortlist_teams_commit(p) /\ InFlight
    \/ \E p \in Readers : request_end(p) /\ InFlight

SpecShortlistRace == Init /\ [][NextShortlistRace]_vars

\* the life cycle next to PUT /api/rounds/{event_id}/{number} with a body
\* that carries the is_evaluated flag
FlagUpdateInputs == { [is_evaluated |-> FALSE] }

NextFlags ==
    \/ \E r \in RealRounds, t \in Teams :
          evaluate_team(r, t, [k \in {"a"} |-> 1], Admin, TRUE, FALSE) /\ Counted
    \/ \E r \in RealRounds : freeze_round(r, Admin) /\ Counted
    \/ \E r \in RealRounds, a \in RaceShortlistInputs :
          shortlist_teams(r, a.type, a.value, "admin") /\ Counted
    \/ \E r \in RealRounds, eu \in FlagUpdateInputs, u \in Users :
          update_event_or_round(r, eu, u) /\ Counted

SpecFlags == Init /\ [][NextFlags]_vars

\* the tables behind the leaderboard: evaluations, freezes and weights close
\* to the default
BoardWeightInputs == {101}

NextBoard ==
    \/ \E r \in RealRounds, t \in Teams :
          evaluate_team(r, t, [k \in {"a"} |-> 1], Admin, TRUE, FALSE) /\ Counted
    \/ \E r \in RealRounds : freeze_round(r, Admin) /\ Counted
    \/ \E r \in RealRounds, w \in BoardWeightInputs :
          update_round_weight(r, w, Admin) /\ Counted

SpecBoard == Init /\ [][NextBoard]_vars

\* criteria, evaluations and freezes next to the reads of the statistics and
\* of the leaderboard
NextCore ==
    \/ \E r \in Rounds, c \in CriteriaInputs : update_criteria(r, c, Admin) /\ Counted
    \/ \E r \in RealRounds, t \in Teams, pe \in PresenceInputs :
          evaluate_team(r, t, [k \in {"a"} |-> 1], Admin, pe[1], pe[2]) /\ Counted
    \/ \E r \in Rounds, u \in Users : freeze_round(r, u) /\ Counted
    \/ \E r \in Rounds \cup {UnknownId} : get_round_stats(r) /\ Counted
    \/ get_leaderboard_call /\ Counted

SpecCore == Init /\ [][NextCore]_vars

\* ------------------------------------------------- properties
\* the arguments the properties range over
AnyRound == Rounds \cup {UnknownId}
AnyTeam == Teams \cup {UnknownId}

\* the status of a request rejected for the state it finds (HTTP 400)
InvalidState == 400

\* C1: in every reachable state every round with is_evaluated = true also
\* has is_frozen = true.
C1_EvaluatedImpliesFrozen ==
    \A r \in Rounds : rounds[r].is_evaluated => rounds[r].is_frozen

\* a shortlist has marked a round evaluated while another round is still open
C1_Witness ==
    \E r, q \in Rounds : /\ rounds[r].is_evaluated /\ rounds[r].is_frozen
                         /\ ~rounds[q].is_frozen

\* C2: while a round is frozen, every evaluate_team call on it (any team,
\* any criteria_scores, any is_present, any caller) raises an error and
\* leaves every TeamScore row and every team status as it was.
C2_FrozenRoundRejectsEvaluation ==
    \A r \in Rounds : rounds[r].is_frozen =>
        \A t \in AnyTeam, cs \in PointsInputs, u \in Users, p \in BOOLEAN, e \in BOOLEAN :
            /\ evaluate_team_error(r, t, u) # "ok"
            /\ evaluate_team_result(r, t, cs, u, p, e).team_scores = team_scores
            /\ evaluate_team_result(r, t, cs, u, p, e).teams = teams

\* a frozen round and an ACTIVE team whose evaluation only the freeze rejects
C2_Witness ==
    \E r \in Rounds, t \in Teams :
        /\ rounds[r].is_frozen
        /\ teams[t] = "ACTIVE"
        /\ evaluate_team_error(r, t, Admin) = "Cannot evaluate teams for frozen rounds"

\* C3: unfreeze_round on a round with is_evaluated = true is rejected as an
\* invalid-state request for every caller role, and leaves the round as it was.
C3_UnfreezeEvaluatedIsInvalidState ==
    \A r \in Rounds : rounds[r].is_evaluated =>
        \A u \in Users :
            /\ unfreeze_round_status(r, u) = InvalidState
            /\ unfreeze_round_result(r, u) = rounds


\* C4: after a successful shortlist(round_id, mode, value) the round round_id
\* itself has is_evaluated = true and its shortlisted_teams is the list of the
\* selected teams, whatever other rounds are evaluated or frozen.
C4_ShortlistMarksItsRound ==
    \A r \in Rounds, a \in ShortlistInputs :
        shortlist_teams_error(r, a.type, a.value, "admin") = "ok" =>
            LET res == shortlist_teams_result(r, a.type, a.value, "admin")
            IN /\ res.rounds[r].is_evaluated
               /\ res.rounds[r].shortlisted_teams = Some(shortlisted_teams(a.type, a.value))

\* the overall score as the aggregation rule states it: in-scope rounds,
\* 0 for a missing row, 100 for a missing weight
InScope(r) == round_number(r) > 0 /\ (rounds[r].is_evaluated \/ rounds[r].is_frozen)
ScoreOf(t, r) ==
    IF <<t, r>> \in DOMAIN team_scores THEN team_scores[<<t, r>>].score ELSE 0
WeightOf(r) == IF r \in DOMAIN round_weights THEN round_weights[r] ELSE 100
WeightedAverage(t) ==
    LET scope == {r \in Rounds : InScope(r)}
    IN IF scope = {} THEN None
       ELSE Some(Frac(SumOver([r \in scope |-> ScoreOf(t, r) * WeightOf(r)], scope),
                      SumOver([r \in scope |-> WeightOf(r)], scope)))
OverallOrZero(t) == IF WeightedAverage(t).null THEN Zero ELSE WeightedAverage(t).value
ActiveTeams == {t \in Teams : teams[t] = "ACTIVE"}

\* C5: after a successful shortlist with mode top_k and value k, exactly k of
\* the teams ACTIVE before the call are ACTIVE afterwards, none of them with
\* a lower overall score than a team that is not, and every other team that
\* was ACTIVE is ELIMINATED.
C5_TopKKeepsBest ==
    \A r \in Rounds, k \in 0..(NumTeams + 1) :
        shortlist_teams_error(r, "top_k", k, "admin") = "ok" =>
            LET res == shortlist_teams_result(r, "top_k", k, "admin")
                kept == {t \in ActiveTeams : res.teams[t] = "ACTIVE"}
            IN /\ Cardinality(kept) = k
               /\ \A t \in ActiveTeams \ kept : res.teams[t] = "ELIMINATED"
               /\ \A t \in kept, o \in ActiveTeams \ kept :
                     GE(OverallOrZero(t), OverallOrZero(o))

\* a top_k shortlist that has to pass over the first team of the query
C5_Witness ==
    \E r \in Rounds :
        /\ shortlist_teams_error(r, "top_k", 1, "admin") = "ok"
        /\ ActiveTeams = Teams
        /\ GT(OverallOrZero(2), OverallOrZero(1))
        /\ shortlist_teams_result(r, "top_k", 1, "admin").teams[1] = "ELIMINATED"

ThresholdInputs == {0, 1, 2, 50, 100}

\* C6: after a successful shortlist with mode threshold and value v in
\* [0,100], a team that was ACTIVE before is ACTIVE afterwards if and only if
\* its overall score (0 when undefined) is >= v, and is ELIMINATED otherwise;
\* for the round shortlist and for the leaderboard shortlist.
C6_ThresholdKeepsExactly ==
    \A v \in ThresholdInputs :
        /\ \A r \in Rounds :
              shortlist_teams_error(r, "threshold", v, "admin") = "ok" =>
                  \A t \in ActiveTeams :
                      shortlist_teams_result(r, "threshold", v, "admin").teams[t] =
                          IF GE(OverallOrZero(t), Frac(v, 1)) THEN "ACTIVE" ELSE "ELIMINATED"
        /\ shortlist_by_overall_error("threshold", v, Admin) = "ok" =>
              \A t \in ActiveTeams :
                  shortlist_by_overall_result("threshold", v, Admin).teams[t] =
                      IF GE(OverallOrZero(t), Frac(v, 1)) THEN "ACTIVE" ELSE "ELIMINATED"

\* C7: a shortlist call that fails leaves the whole store as it was: team
\* statuses, rounds, TeamScore rows and RoundWeight rows.
C7_FailedShortlistChangesNothing ==
    \A r \in AnyRound, a \in ShortlistInputs :
        shortlist_teams_error(r, a.type, a.value, "admin") # "ok" =>
            shortlist_teams_result(r, a.type, a.value, "admin") =
                [teams |-> teams, rounds |-> rounds, round_weights |-> round_weights]

\* C8: for every team the overall score is the weighted average over the
\* in-scope rounds (round_number > 0 and evaluated or frozen) with 0 for a
\* missing row and 100 for a missing weight, and null when no round is in
\* scope; with or without pre-fetched weights.
C8_OverallIsWeightedAverage ==
    \A t \in Teams :
        /\ calculate_overall_score(t, <<>>) = WeightedAverage(t)
        /\ calculate_overall_score(t, PrefetchedWeights(all_round_ids)) = WeightedAverage(t)

\* two in-scope rounds of different weight, a team with a score in one and no
\* row in the other, and a record of table rounds that is out of scope
C8_Witness ==
    \E t \in Teams, r, q, o \in Rounds :
        /\ InScope(r) /\ InScope(q) /\ ~InScope(o)
        /\ WeightOf(r) # WeightOf(q)
        /\ ScoreOf(t, r) > 0
        /\ <<t, q>> \notin DOMAIN team_scores
        /\ ~WeightedAverage(t).null

\* C9: in every reachable state every TeamScore row has 0 <= score <= 100,
\* whatever criteria the round had and whatever points were submitted.
C9_ScoreWithinBounds ==
    \A k \in DOMAIN team_scores :
        0 <= team_scores[k].score /\ team_scores[k].score <= ScoreCap

\* C10: for a present team the score evaluate_team stores is 100 if and only
\* if raw_total >= max_possible when the round has criteria defined, or
\* raw_total >= 100 when it has none.
C10_FullScoreIffAtMaximum ==
    \A r \in Rounds, t \in Teams, cs \in NormPointsInputs :
        evaluate_team_error(r, t, Admin) = "ok" =>
            LET row == evaluate_team_result(r, t, cs, Admin, TRUE, FALSE).team_scores[<<t, r>>]
                c == rounds[r].criteria
            IN (row.score = ScoreCap) <=>
                   IF CriteriaDefined(c) THEN SumValues(cs) >= max_possible(c)
                   ELSE SumValues(cs) >= ScoreCap

\* C11: for a present team evaluate_team stores raw_total_score = the sum of
\* the submitted points; with criteria whose max_points sum to M > 0 it stores
\* score = min(100, raw * 100 / M) and is_normalized = TRUE; in every other
\* case (no criteria, empty list, M = 0) it stores score = min(100, raw) and
\* is_normalized = FALSE.
C11_NormalizationAsClaimed ==
    \A r \in Rounds, t \in Teams, cs \in NormPointsInputs :
        evaluate_team_error(r, t, Admin) = "ok" =>
            LET row == evaluate_team_result(r, t, cs, Admin, TRUE, FALSE).team_scores[<<t, r>>]
                c == rounds[r].criteria
                raw == SumValues(cs)
            IN /\ row.raw_total_score = raw
               /\ IF CriteriaDefined(c) /\ max_possible(c) > 0
                  THEN /\ row.score = Min({(raw * 100) \div max_possible(c), ScoreCap})
                       /\ row.is_normalized
                  ELSE /\ row.score = Min({raw, ScoreCap})
                       /\ ~row.is_normalized

C16_CriteriaOnlyWhileOpen ==
    \A r \in RealRounds, c \in NormCriteriaInputs, u \in Users :
        LET locked == rounds[r].is_frozen \/ rounds[r].is_evaluated
            viaService == update_criteria_result(r, c, u)
            viaUpdate == update_event_or_round_result(r, [criteria |-> Some(c)], u)
        IN /\ locked =>
                /\ update_criteria_error(r, u) # "ok"
                /\ viaService[r].criteria = rounds[r].criteria
                /\ update_event_or_round_error(r, u) # "ok"
                /\ viaUpdate[r].criteria = rounds[r].criteria
           /\ ~locked /\ update_criteria_error(r, u) = "ok" =>
                viaService = [rounds EXCEPT ![r].criteria = Some(c)]
           /\ ~locked /\ update_event_or_round_error(r, u) = "ok" =>
                viaUpdate = [rounds EXCEPT ![r].criteria = Some(c)]

C14_DefaultWeightRead ==
    \A p \in Readers :
        /\ readers[p].pc # "failed"
        /\ \A r \in DOMAIN readers[p].weights :
              /\ readers[p].weights[r] = DefaultWeight
              /\ r \in DOMAIN round_weights

WeightProbes == {0, 24, 25, 50, 200, 201}

\* C15: a weight update with a percentage outside [25, 200] is rejected and
\* changes no RoundWeight row, so every stored weight lies in [25, 200]; an
\* accepted update leaves the round with the given weight, adding its row when
\* it had none and touching no other row.
C15_StoredWeightsInRange ==
    /\ \A r \in DOMAIN round_weights :
          MinWeight <= round_weights[r] /\ round_weights[r] <= MaxWeight
    /\ \A r \in AnyRound, w \in WeightProbes, u \in Users :
          LET after == update_round_weight_result(r, w, u)
          IN /\ (w < MinWeight \/ w > MaxWeight) =>
                    /\ update_round_weight_error(r, w, u) # "ok"
                    /\ after = round_weights
             /\ update_round_weight_error(r, w, u) = "ok" =>
                    /\ DOMAIN after = DOMAIN round_weights \cup {r}
                    /\ after[r] = w
                    /\ \A o \in DOMAIN round_weights \ {r} : after[o] = round_weights[o]

\* one round carries an explicitly set weight, another the default
C15_Witness ==
    \E r, o \in DOMAIN round_weights :
        round_weights[r] = 50 /\ round_weights[o] = DefaultWeight

\* the teams with a TeamScore row in round r, and those whose score is > 0
Scored(r) == {t \in Teams : <<t, r>> \in DOMAIN team_scores}
ScoredPositive(r) == {t \in Scored(r) : team_scores[<<t, r>>].score > 0}

\* C17: freeze_round on a round that is already frozen or has no TeamScore
\* row fails and leaves is_frozen and the cached statistics (the whole rounds
\* table) unchanged; a freeze_round that succeeds is on a round that is
\* neither frozen nor evaluated and has at least one row.
C17_FreezeOnlyOpenWithRows ==
    \A r \in AnyRound, u \in Users :
        /\ (r \in Rounds /\ (rounds[r].is_frozen \/ Scored(r) = {})) =>
              /\ freeze_round_error(r, u) # "ok"
              /\ freeze_round_result(r, u) = rounds
        /\ freeze_round_error(r, u) = "ok" =>
              /\ r \in Rounds
              /\ ~rounds[r].is_frozen /\ ~rounds[r].is_evaluated
              /\ Scored(r) # {}

\* one round frozen with statistics cached and rows, another open without rows
C17_Witness ==
    \E r, o \in RealRounds :
        /\ rounds[r].is_frozen /\ Scored(r) # {} /\ ~rounds[r].max_score.null
        /\ ~rounds[o].is_frozen /\ Scored(o) = {}

\* C18: a frozen round carries max_score, min_score and avg_score computed
\* over exactly its rows with score > 0 (all three 0 when there is none) and
\* participated_count = the number of all its rows, rows with score 0 or of
\* absent teams included.
C18_FrozenStatistics ==
    \A r \in Rounds :
        rounds[r].is_frozen =>
            LET pos == ScoredPositive(r)
                score(t) == team_scores[<<t, r>>].score
            IN /\ rounds[r].participated_count = Cardinality(Scored(r))
               /\ ~rounds[r].max_score.null /\ ~rounds[r].min_score.null
               /\ ~rounds[r].avg_score.null
               /\ IF pos = {}
                  THEN /\ rounds[r].max_score.value = 0
                       /\ rounds[r].min_score.value = 0
                       /\ rounds[r].avg_score.value.num = 0
                  ELSE /\ \E t \in pos : score(t) = rounds[r].max_score.value
                       /\ \A t \in pos : score(t) <= rounds[r].max_score.value
                       /\ \E t \in pos : score(t) = rounds[r].min_score.value
                       /\ \A t \in pos : score(t) >= rounds[r].min_score.value
                       /\ rounds[r].avg_score.value.num * Cardinality(pos) =
                              rounds[r].avg_score.value.den
                                  * SumOver([t \in pos |-> score(t)], pos)

\* a frozen round with a row of score 0 next to a row of score > 0
C18_Witness ==
    \E r \in RealRounds :
        /\ rounds[r].is_frozen
        /\ ScoredPositive(r) # {}
        /\ Scored(r) \ ScoredPositive(r) # {}

\* C19: unfreeze_round by an admin on a round that is frozen and not
\* evaluated succeeds and clears is_frozen, changing nothing else of the
\* round, so that evaluate_team and update_criteria on it are accepted again.
C19_UnfreezeReopens ==
    \A r \in RealRounds :
        rounds[r].is_frozen /\ ~rounds[r].is_evaluated =>
            /\ unfreeze_round_error(r, Admin) = "ok"
            /\ unfreeze_round_result(r, Admin) = [rounds EXCEPT ![r].is_frozen = FALSE]

\* C20: an evaluation request with is_present = false is carried out and
\* sets the team's status to ELIMINATED when eliminate_absentees is true and
\* leaves it unchanged when eliminate_absentees is false; one with
\* is_present = true is carried out and changes no team status.
C20_AbsenteeElimination ==
    \A r \in RealRounds, t \in Teams, b \in EvaluationBodies :
        evaluate_team_error(r, t, Admin) = "ok" /\ DOMAIN b # {"criteria_scores"} =>
            LET res == evaluate_team_endpoint_result(r, t, b, Admin)
            IN /\ evaluate_team_endpoint_error(r, t, b, Admin) = "ok"
               /\ <<t, r>> \in DOMAIN res.team_scores
               /\ res.teams =
                     IF ~b.is_present /\ b.eliminate_absentees
                     THEN [teams EXCEPT ![t] = "ELIMINATED"]
                     ELSE teams

Absent(r) == {t \in Scored(r) : ~team_scores[<<t, r>>].is_present}

C24_ReactivateParticipants ==
    \A r \in Rounds :
        rounds[r].is_frozen =>
            LET after == handle_absentees_result(r, FALSE)
            IN /\ handle_absentees_error(r) = "ok"
               /\ \A t \in Teams :
                     after[t] = IF t \in Scored(r) /\ teams[t] = "ELIMINATED"
                                THEN "ACTIVE" ELSE teams[t]
               /\ Cardinality(handle_absentees_reactivated(r, FALSE))
                      = Cardinality({t \in Teams : after[t] # teams[t]})
               /\ handle_absentees_eliminated(r, FALSE) = {}

\* a frozen round with an ELIMINATED team that was present in it, and an
\* ELIMINATED team without a row in it
C24_Witness ==
    \E r \in RealRounds, t, o \in Teams :
        /\ rounds[r].is_frozen
        /\ t \in Scored(r) \ Absent(r) /\ teams[t] = "ELIMINATED"
        /\ o \notin Scored(r) /\ teams[o] = "ELIMINATED"

\* C25: while a round stays frozen its TeamScore rows do not change, so the
\* max, min and participated_count freeze_round cached always equal the
\* values recomputed from the current rows, also with an evaluation of the
\* round in flight when it is frozen.
C25_FrozenRowsDoNotChange ==
    /\ [][\A r \in Rounds :
            rounds[r].is_frozen /\ rounds'[r].is_frozen =>
                \A t \in Teams :
                    /\ (<<t, r>> \in DOMAIN team_scores') = (<<t, r>> \in DOMAIN team_scores)
                    /\ <<t, r>> \in DOMAIN team_scores =>
                          team_scores'[<<t, r>>] = team_scores[<<t, r>>]]_vars
    /\ [](\A r \in Rounds :
            rounds[r].is_frozen =>
                /\ rounds[r].participated_count = Cardinality(Scored(r))
                /\ rounds[r].max_score.value =
                      IF ScoredPositive(r) = {} THEN 0
                      ELSE Max({team_scores[<<t, r>>].score : t \in ScoredPositive(r)})
                /\ rounds[r].min_score.value =
                      IF ScoredPositive(r) = {} THEN 0
                      ELSE Min({team_scores[<<t, r>>].score : t \in ScoredPositive(r)}))

\* C26: when two requests that create the default weight of a round on
\* demand both find it absent, both complete: no request ends in an error
\* caused by the unique constraint on round_id.
C26_LazyWeightNeverFails ==
    \A p \in Readers :
        requests[p].pc = "failed" => requests[p].error # "IntegrityError"

\* the number of TeamScore rows stored for team t in round r
RowCount(t, r) ==
    (IF <<t, r>> \in DOMAIN team_scores THEN 1 ELSE 0)
        + Cardinality({i \in DOMAIN extra_rows : extra_rows[i].key = <<t, r>>})

C28_DecisionAppliedWithItsRound ==
    [][\A r \in Rounds, a \in ShortlistInputs :
          LET res == shortlist_teams_result(r, a.type, a.value, "admin")
          IN (/\ shortlist_teams_error(r, a.type, a.value, "admin") = "ok"
              /\ teams' = res.teams
              /\ rounds' = res.rounds
              /\ round_weights' = res.round_weights
              /\ rounds' # rounds)
             => /\ rounds'[r].is_evaluated
                /\ \A x \in Rounds :
                      rounds'[x].is_evaluated /\ ~rounds[x].is_evaluated
                          => rounds'[x].shortlisted_teams
                                = Some(shortlisted_teams(a.type, a.value))]_vars

\* C29: two shortlist calls on one round that ran side by side leave what
\* one of their serial orders leaves: right after both have committed, every
\* team in the round's shortlisted_teams is ACTIVE.
C29_ConcurrentShortlistsSerialize ==
    \A p, q \in Readers :
        (/\ p # q
         /\ requests[p].pc = "done" /\ requests[p].op = "shortlist_teams"
         /\ requests[q].pc = "done" /\ requests[q].op = "shortlist_teams"
         /\ requests[p].round_id = requests[q].round_id)
        => \A t \in Range(rounds[requests[p].target].shortlisted_teams.value) :
              teams[t] = "ACTIVE"

\* the rounds proper that are frozen and not yet evaluated
FrozenUnevaluated ==
    {x \in Rounds : round_number(x) > 0 /\ rounds[x].is_frozen /\ ~rounds[x].is_evaluated}

\* C30: after a successful shortlist, by round or by overall score, every
\* round that was frozen but not evaluated when the decision was taken is
\* evaluated.
C30_ShortlistSweepsFrozenRounds ==
    /\ \A r \in Rounds, a \in ShortlistInputs :
          shortlist_teams_error(r, a.type, a.value, "admin") = "ok" =>
              \A x \in FrozenUnevaluated :
                 shortlist_teams_result(r, a.type, a.value, "admin").rounds[x].is_evaluated
    /\ \A a \in ShortlistInputs :
          shortlist_by_overall_error(a.type, a.value, Admin) = "ok" =>
              \A x \in FrozenUnevaluated :
                 shortlist_by_overall_result(a.type, a.value, Admin).rounds[x].is_evaluated

\* C31: an evaluated round is immutable: no step changes its shortlisted_teams,
\* its criteria, its cached statistics or its TeamScore rows.
C31_EvaluatedRoundIsImmutable ==
    [][\A r \in Rounds : rounds[r].is_evaluated =>
          /\ rounds'[r].shortlisted_teams = rounds[r].shortlisted_teams
          /\ rounds'[r].criteria = rounds[r].criteria
          /\ rounds'[r].max_score = rounds[r].max_score
          /\ rounds'[r].min_score = rounds[r].min_score
          /\ rounds'[r].avg_score = rounds[r].avg_score
          /\ rounds'[r].participated_count = rounds[r].participated_count
          /\ \A t \in Teams :
                /\ (<<t, r>> \in DOMAIN team_scores') = (<<t, r>> \in DOMAIN team_scores)
                /\ <<t, r>> \in DOMAIN team_scores
                      => team_scores'[<<t, r>>] = team_scores[<<t, r>>]]_vars

\* C32: is_evaluated is monotone: a round that is evaluated is evaluated after
\* every step, and is among the rounds the overall score is computed over.
C32_EvaluatedIsMonotone ==
    [][\A r \in RealRounds : rounds[r].is_evaluated =>
          /\ rounds'[r].is_evaluated
          /\ r \in Range(evaluated_rounds \o frozen_rounds)']_vars

\* C33 as stated: each event has at most one round that is frozen but not
\* evaluated.
C33_AtMostOneUndecidedRound ==
    Cardinality(FrozenUnevaluated) <= 1

\* C33: freeze_round adds its round to the frozen-but-unevaluated rounds and
\* leaves the others there, however many there are; the aggregation scope is
\* the evaluated rounds plus every frozen-but-unevaluated round.
C33_ScopeHoldsEveryUndecidedRound ==
    /\ \A r \in RealRounds, u \in Users :
          freeze_round_error(r, u) = "ok" =>
              LET after == freeze_round_result(r, u)
              IN {x \in RealRounds : after[x].is_frozen /\ ~after[x].is_evaluated}
                     = FrozenUnevaluated \cup {r}
    /\ all_round_ids = {x \in RealRounds : rounds[x].is_evaluated} \cup FrozenUnevaluated

\* two rounds frozen and none of them evaluated, both in scope
C33_Witness ==
    /\ Cardinality(FrozenUnevaluated) = 2
    /\ FrozenUnevaluated \subseteq all_round_ids
    /\ \A x \in FrozenUnevaluated : rounds[x].participated_count > 0

\* C34: the score by which a shortlist ranks and thresholds a team is the
\* overall score the leaderboard reports for it in the same state, for the
\* shortlist of a round and for the shortlist by overall score.
C34_ShortlistScoreIsReportedScore ==
    \A t \in Teams :
        (teams[t] = "ACTIVE" /\ all_round_ids # {} /\ leaderboard_total_weight > 0) =>
            /\ OrZero(calculate_overall_score(t, PrefetchedWeights(all_round_ids)))
                  = leaderboard_weighted_average(t)
            /\ leaderboard_normalized_score(t) = leaderboard_weighted_average(t)

\* C35: the leaderboard lists every ranked team exactly once, in descending
\* order of the un-normalized overall score, teams with equal overall in
\* their input order; the normalized column does not change that order.
C35_LeaderboardOrderedByOverall ==
    all_round_ids # {} /\ leaderboard_total_weight > 0 =>
        /\ Len(get_leaderboard) = NumTeams
        /\ Range(get_leaderboard) = Teams
        /\ get_leaderboard
              = SortDesc(all_teams, [t \in Teams |-> leaderboard_weighted_average(t)])

\* C36: the overall score computed with a pre-fetched weights map, be it
\* empty, partial or complete, is the one computed with a weight lookup per
\* round.
C36_PrefetchedMapAgreesWithLookups ==
    \A t \in Teams, S \in SUBSET all_round_ids :
        calculate_overall_score(t, PrefetchedWeights(S)) = calculate_overall_score(t, <<>>)

\* two rounds in scope, one with a stored weight other than the default, and a
\* team whose scores in the two differ: a map of the other round alone
C36_Witness ==
    \E t \in Teams, r, q \in all_round_ids :
        /\ r # q
        /\ r \in DOMAIN round_weights /\ round_weights[r] # DefaultWeight
        /\ ScoreOf(t, r) # ScoreOf(t, q)
        /\ ~calculate_overall_score(t, PrefetchedWeights({q})).null

\* C37: a shortlist call changes the status of teams that were ACTIVE only:
\* the other teams keep theirs, the selected teams and the eliminated teams
\* are disjoint and together the teams ACTIVE before, the selected ones being
\* the teams of the returned list; and the call leaves every TeamScore row as
\* it was.
C37_ShortlistTouchesActiveTeamsOnly ==
    /\ [](\A r \in AnyRound, a \in ShortlistInputs :
            LET res == shortlist_teams_result(r, a.type, a.value, "admin")
                selected == {t \in ActiveTeams : res.teams[t] = "ACTIVE"}
                eliminated == {t \in ActiveTeams : res.teams[t] = "ELIMINATED"}
            IN /\ \A t \in Teams \ ActiveTeams : res.teams[t] = teams[t]
               /\ shortlist_teams_error(r, a.type, a.value, "admin") = "ok" =>
                     /\ selected \cap eliminated = {}
                     /\ selected \cup eliminated = ActiveTeams
                     /\ selected = Range(shortlisted_teams(a.type, a.value)))
    /\ [][(\E r \in Rounds, a \in ShortlistInputs :
             LET res == shortlist_teams_result(r, a.type, a.value, "admin")
             IN /\ shortlist_teams_error(r, a.type, a.value, "admin") = "ok"
                /\ teams' = res.teams
                /\ rounds' = res.rounds
                /\ round_weights' = res.round_weights
                /\ rounds' # rounds)
          => team_scores' = team_scores]_vars

\* a shortlist that succeeds while one team is ELIMINATED already and another,
\* with a TeamScore row, is still ACTIVE
C37_Witness ==
    \E r \in Rounds, a \in ShortlistInputs, t \in Teams \ ActiveTeams, o \in ActiveTeams :
        /\ shortlist_teams_error(r, a.type, a.value, "admin") = "ok"
        /\ teams[t] = "ELIMINATED"
        /\ \E x \in Rounds : <<o, x>> \in DOMAIN team_scores
        /\ shortlist_teams_result(r, a.type, a.value, "admin").teams[o] = "ELIMINATED"

\* C38: for an open round and an ACTIVE team every step of the sequence set
\* criteria, evaluate the team, freeze the round, read the statistics
\* succeeds, whatever the other rounds are: the criteria update and the
\* evaluation request are carried out, the evaluation leaves a row, a round
\* with a row can be frozen, and the statistics can be read.
C38_RoundSequenceSucceeds ==
    \A r \in RealRounds, t \in Teams :
        (~rounds[r].is_frozen /\ teams[t] = "ACTIVE") =>
            /\ update_criteria_error(r, Admin) = "ok"
            /\ \A b \in EvaluationBodies :
                  /\ evaluate_team_endpoint_error(r, t, b, Admin) = "ok"
                  /\ <<t, r>> \in DOMAIN evaluate_team_endpoint_result(r, t, b, Admin).team_scores
            /\ Scored(r) # {} => freeze_round_error(r, Admin) = "ok"
            /\ get_round_stats_error(r) = "ok"

\* C39: no step of set criteria, evaluate_team, freeze_round, get_round_stats
\* and the leaderboard read creates or deletes a team or a round.
C39_TeamsAndRoundsKept ==
    [][DOMAIN teams' = DOMAIN teams /\ DOMAIN rounds' = DOMAIN rounds]_vars

\* a round with criteria, frozen, with the weight the leaderboard read gave it,
\* and a team eliminated by its evaluation: every team and round still there
C39_Witness ==
    \E r \in Rounds, t \in Teams :
        /\ ~rounds[r].criteria.null /\ rounds[r].is_frozen
        /\ r \in DOMAIN round_weights
        /\ teams[t] = "ELIMINATED" /\ <<t, r>> \in DOMAIN team_scores
        /\ DOMAIN teams = Teams /\ DOMAIN rounds = Rounds

====
